---- MODULE Spec2Model ----
(***************************************************************************)
(* Model of the Native New Yorker chatbot: the terminal loop of            *)
(* nyc_chat.py and the Streamlit page of nyc_chat_streamlit.py (chat and   *)
(* borough quiz).  Texts are sequences of one-character strings, so that   *)
(* str.strip, str.lower and str.startswith are computed, not assumed.      *)
(***************************************************************************)
EXTENDS Integers, Sequences, FiniteSets, TLC

VARIABLES
    variant,        \* which entry point runs: "cli" or "ui"
    pc,             \* cli: "input" | "call" | "done";  ui: "idle" | "stream"
    messages,       \* the conversation: sequence of [role, content]
    line,           \* cli: the line input() returned last
    user_input,     \* cli: that line stripped
    event,          \* the step taken last (each one displays something else)
    calls,          \* cli: chat-completion requests issued for the line last read
    pre_turn,       \* history: the conversation before the pending user message
    answer_accum,   \* ui: text accumulated from the stream
    chunk_idx,      \* ui: number of stream chunks consumed in this turn
    failures,       \* ui: number of failed external calls so far
    mode,           \* ui: st.session_state.mode
    quiz_started,   \* ui: st.session_state.quiz_started
    quiz_index,     \* ui: st.session_state.quiz_index (0-based)
    quiz_answers,   \* ui: st.session_state.quiz_answers
    quiz_result,    \* ui: st.session_state.quiz_result ("None" when unset)
    chosen          \* ui: the radio's value when "Next" was pressed last

vars == <<variant, pc, messages, line, user_input, event, calls, pre_turn,
          answer_accum, chunk_idx, failures, mode,
          quiz_started, quiz_index, quiz_answers, quiz_result, chosen>>

cliVars == <<line, user_input, calls>>
streamVars == <<answer_accum, chunk_idx, failures>>
quizVars == <<quiz_started, quiz_index, quiz_answers, quiz_result, chosen>>

----------------------------------------------------------------------------
(* Bounds                                                                   *)

\* failed external calls the web-UI session may see
MaxFailures == 2

\* failed external calls when chat and quiz are explored together
MixedMaxFailures == 1

----------------------------------------------------------------------------
(* Text helpers                                                             *)

UpperChars == <<"A","B","C","D","E","F","G","H","I","J","K","L","M",
                "N","O","P","Q","R","S","T","U","V","W","X","Y","Z">>
LowerChars == <<"a","b","c","d","e","f","g","h","i","j","k","l","m",
                "n","o","p","q","r","s","t","u","v","w","x","y","z">>

Whitespace == {" ", "\t", "\n"}

\* str.lower on one character
LowerChar(c) ==
    IF \E i \in 1..Len(UpperChars) : UpperChars[i] = c
    THEN LowerChars[CHOOSE i \in 1..Len(UpperChars) : UpperChars[i] = c]
    ELSE c

\* str.lower
Lower(s) == [i \in 1..Len(s) |-> LowerChar(s[i])]

RECURSIVE LStrip(_)
LStrip(s) ==
    IF s # <<>> /\ Head(s) \in Whitespace THEN LStrip(Tail(s)) ELSE s

RECURSIVE RStrip(_)
RStrip(s) ==
    IF s # <<>> /\ s[Len(s)] \in Whitespace
    THEN RStrip(SubSeq(s, 1, Len(s) - 1))
    ELSE s

\* str.strip
Strip(s) == RStrip(LStrip(s))

\* variant: equality instead of a prefix test
StartsWith_Exact(s, p) == s = p

\* str.startswith
StartsWith(s, p) == Len(s) >= Len(p) /\ SubSeq(s, 1, Len(p)) = p

\* Python slice seq[-k:]
LastK(s, k) == IF Len(s) <= k THEN s ELSE SubSeq(s, Len(s) - k + 1, Len(s))

\* Python list.pop() (the list that remains)
Pop(s) == SubSeq(s, 1, Len(s) - 1)

Msg(r, c) == [role |-> r, content |-> c]

----------------------------------------------------------------------------
(* Terminal chatbot: nyc_chat.py                                            *)

\* the persona text of the terminal chatbot (abbreviated)
system_prompt == <<"N","Y","C"," ","B","o","t">>

CliSystemMessage == Msg("system", system_prompt)

\* the lines the user types at the "You: " prompt
CliLines ==
    { <<>>,
      <<" ">>,
      <<"h","i">>,
      <<" ","h","i"," ">>,
      <<"/","e","x","i","t","s">>,
      <<"/","e","x","i","t">>,
      <<"/","Q","u","i","t">>,
      <<" ","/","Q","\t">>,
      <<"/","r","e","s","e","t">>,
      <<"/","R","E","S","E","T"," ">>,
      <<"/","r","e","s","e","t","x">> }

\* message.content of the completions the API returns
CliReplies == { <<"Y","o">>, <<" ","Y","o","\n">> }

\* variant: the short form is not recognised
ExitCommands_NoQ ==
    { <<"/","e","x","i","t">>, <<"/","q","u","i","t">> }

ExitCommands ==
    { <<"/","e","x","i","t">>, <<"/","q","u","i","t">>, <<"/","q">> }

ResetPrefix == <<"/","r","e","s","e","t">>

\* variant: the oldest eighteen messages are kept instead of the newest
CliTrim_Oldest(m) ==
    IF Len(m) > 20 THEN <<m[1]>> \o SubSeq(m, 2, 19) ELSE m

\* variant: one message fewer is kept
CliTrim_Keep17(m) ==
    IF Len(m) > 20 THEN <<m[1]>> \o LastK(m, 17) ELSE m

\* variants of the trim of the terminal loop
CliTrim_DropSystem(m) ==
    IF Len(m) > 20 THEN LastK(m, 19) ELSE m

CliTrim_Threshold21(m) ==
    IF Len(m) > 21 THEN <<m[1]>> \o LastK(m, 18) ELSE m

CliTrim(m) ==
    IF Len(m) > 20 THEN <<m[1]>> \o LastK(m, 18) ELSE m

\* one pass of the loop body up to the point where it blocks in the API
\* call, continues or breaks
CliInput(typed) ==
    /\ variant = "cli"
    /\ pc = "input"
    /\ line' = typed
    /\ LET ui == Strip(typed) IN
       /\ user_input' = ui
       /\ IF ui = <<>>
          THEN /\ event' = "empty"
               /\ calls' = 0
               /\ UNCHANGED <<pc, messages, pre_turn>>
          ELSE IF Lower(ui) \in ExitCommands
          THEN /\ pc' = "done"
               /\ event' = "exit"
               /\ calls' = 0
               /\ UNCHANGED <<messages, pre_turn>>
          ELSE IF StartsWith(Lower(ui), ResetPrefix)
          THEN /\ messages' = <<CliSystemMessage>>
               /\ event' = "reset"
               /\ calls' = 0
               /\ UNCHANGED <<pc, pre_turn>>
          ELSE /\ pre_turn' = messages
               /\ messages' = Append(messages, Msg("user", ui))
               /\ pc' = "call"
               /\ event' = "user"
               /\ calls' = 1
    /\ UNCHANGED <<variant, streamVars, mode, quizVars>>

\* input() raises EOFError or KeyboardInterrupt
CliEOF ==
    /\ variant = "cli"
    /\ pc = "input"
    /\ pc' = "done"
    /\ event' = "eof"
    /\ UNCHANGED <<variant, messages, cliVars, pre_turn, streamVars, mode, quizVars>>

\* the API call returns a completion
CliCallOk(content) ==
    /\ variant = "cli"
    /\ pc = "call"
    /\ LET assistant_reply == Strip(content)
           appended == Append(messages, Msg("assistant", assistant_reply))
       IN  /\ messages' = CliTrim(appended)
           /\ event' = IF CliTrim(appended) # appended THEN "reply+trim" ELSE "reply"
    /\ pc' = "input"
    /\ pre_turn' = <<>>
    /\ UNCHANGED <<variant, cliVars, streamVars, mode, quizVars>>

\* variant: the pending user message is left in the history
CliCallFail_NoPop ==
    /\ variant = "cli"
    /\ pc = "call"
    /\ event' = "error"
    /\ messages' = messages
    /\ pc' = "input"
    /\ pre_turn' = <<>>
    /\ UNCHANGED <<variant, cliVars, streamVars, mode, quizVars>>

\* variant: the request is issued again (up to three times) for the same line
CliCallFail_Retry ==
    /\ variant = "cli"
    /\ pc = "call"
    /\ event' = "error"
    /\ IF calls < 3
       THEN /\ calls' = calls + 1
            /\ UNCHANGED <<pc, messages, pre_turn>>
       ELSE /\ messages' = Pop(messages)
            /\ pc' = "input"
            /\ pre_turn' = <<>>
            /\ UNCHANGED calls
    /\ UNCHANGED <<variant, line, user_input, streamVars, mode, quizVars>>

\* the API call raises openai.OpenAIError
CliCallFail ==
    /\ variant = "cli"
    /\ pc = "call"
    /\ event' = "error"
    /\ messages' = Pop(messages)
    /\ pc' = "input"
    /\ pre_turn' = <<>>
    /\ UNCHANGED <<variant, cliVars, streamVars, mode, quizVars>>

CliNext ==
    \/ \E typed \in CliLines : CliInput(typed)
    \/ CliEOF
    \/ \E content \in CliReplies : CliCallOk(content)
    \/ CliCallFail

----------------------------------------------------------------------------
(* Streamlit chat: nyc_chat_streamlit.py                                    *)

\* the persona text of the web UI (abbreviated)
get_persona_prompt == <<"n","a","t","i","v","e">>

UiSystemMessage == Msg("system", get_persona_prompt)

\* what the user submits in st.chat_input (never empty: the walrus test)
UiPrompts == { <<"h","e","y">> }

\* delta.content of the chunks of one streamed completion; the first chunk
\* of a stream carries the role and an empty content
StreamChunks == << <<>>, <<"Y","o">>, <<"!">> >>

\* variant of the trim of the web UI: one message too many is kept
UiTrim_Keep39(m) ==
    IF Len(m) > 40 THEN <<m[1]>> \o LastK(m, 39) ELSE m

UiTrim(m) ==
    IF Len(m) > 40 THEN <<m[1]>> \o LastK(m, 38) ELSE m

\* the sidebar radio: st.session_state.mode = st.radio(...)
UiSetMode(m) ==
    /\ variant = "ui"
    /\ pc = "idle"
    /\ mode' = m
    /\ event' = "mode"
    /\ UNCHANGED <<variant, pc, messages, cliVars, pre_turn, streamVars, quizVars>>

\* variant: the history is emptied, persona included
UiReset_Empty ==
    /\ variant = "ui"
    /\ pc = "idle"
    /\ mode = "Chat Mode"
    /\ messages' = <<>>
    /\ event' = "reset"
    /\ UNCHANGED <<variant, pc, cliVars, pre_turn, streamVars, mode, quizVars>>

\* the "Reset conversation" button, rendered in Chat Mode only
UiReset ==
    /\ variant = "ui"
    /\ pc = "idle"
    /\ mode = "Chat Mode"
    /\ messages' = <<UiSystemMessage>>
    /\ event' = "reset"
    /\ UNCHANGED <<variant, pc, cliVars, pre_turn, streamVars, mode, quizVars>>

\* _run_chat: a prompt arrives, the user message is stored and the stream
\* is requested
UiSubmit(prompt) ==
    /\ variant = "ui"
    /\ pc = "idle"
    /\ mode = "Chat Mode"
    /\ pre_turn' = messages
    /\ messages' = Append(messages, Msg("user", prompt))
    /\ answer_accum' = <<>>
    /\ chunk_idx' = 0
    /\ pc' = "stream"
    /\ event' = "submit"
    /\ UNCHANGED <<variant, cliVars, failures, mode, quizVars>>

\* stream_llm_response yields the next chunk; empty contents are skipped
UiChunk ==
    /\ variant = "ui"
    /\ pc = "stream"
    /\ chunk_idx < Len(StreamChunks)
    /\ chunk_idx' = chunk_idx + 1
    /\ LET content == StreamChunks[chunk_idx + 1] IN
       answer_accum' = IF content # <<>> THEN answer_accum \o content
                                         ELSE answer_accum
    /\ event' = "chunk"
    /\ UNCHANGED <<variant, pc, messages, cliVars, pre_turn, failures,
                   mode, quizVars>>

\* the stream is exhausted: store the answer, trim
UiStreamDone ==
    /\ variant = "ui"
    /\ pc = "stream"
    /\ chunk_idx = Len(StreamChunks)
    /\ LET appended == Append(messages, Msg("assistant", answer_accum)) IN
       /\ messages' = UiTrim(appended)
       /\ event' = IF UiTrim(appended) # appended THEN "answer+trim" ELSE "answer"
    /\ answer_accum' = <<>>
    /\ chunk_idx' = 0
    /\ pc' = "idle"
    /\ pre_turn' = <<>>
    /\ UNCHANGED <<variant, cliVars, failures, mode, quizVars>>

\* the request or the iteration over the stream raises: nothing in
\* _run_chat or main catches it, the script run ends with the exception
\* shown and st.session_state as it is
UiStreamFail ==
    /\ variant = "ui"
    /\ pc = "stream"
    /\ failures < MaxFailures
    /\ failures' = failures + 1
    /\ event' = "exception"
    /\ answer_accum' = <<>>
    /\ chunk_idx' = 0
    /\ pc' = "idle"
    /\ pre_turn' = <<>>
    /\ UNCHANGED <<variant, messages, cliVars, mode, quizVars>>

UiNext ==
    \/ \E m \in {"Chat Mode", "NYC Persona Quiz"} : UiSetMode(m)
    \/ UiReset
    \/ \E prompt \in UiPrompts : UiSubmit(prompt)
    \/ UiChunk
    \/ UiStreamDone
    \/ UiStreamFail

----------------------------------------------------------------------------
(* Borough quiz: nyc_chat_streamlit.py                                      *)

QUESTIONS == <<
    [ text |-> "Your ideal weekend pace?",
      options |-> <<
        <<"Non-stop action, events, and seeing it all.", "Manhattan">>,
        <<"Exploring cool new spots, art, and unique eats.", "Brooklyn">>,
        <<"Relaxing with family/friends, maybe a park or diverse food.", "Queens">>,
        <<"Connecting with the community, local vibes, keeping it real.", "Bronx">>,
        <<"Chilling at home, quiet, prefer my own space.", "Staten Island">> >> ],
    [ text |-> "When you think 'NYC food,' what's your first craving?",
      options |-> <<
        <<"A fancy meal or the latest trendy restaurant.", "Manhattan">>,
        <<"Artisanal anything or a cult-favorite food truck.", "Brooklyn">>,
        <<"Authentic global cuisine from a hidden gem.", "Queens">>,
        <<"A classic slice or a hearty hero from the corner spot.", "Bronx">>,
        <<"A good home-cooked meal or reliable local takeout.", "Staten Island">> >> ],
    [ text |-> "How do you feel about crowds?",
      options |-> <<
        <<"Energizing! The more, the merrier.", "Manhattan">>,
        <<"Okay in specific doses, like a cool concert or market.", "Brooklyn">>,
        <<"I prefer spaces where I can breathe, but I can handle them.", "Queens">>,
        <<"Depends on the vibe - a block party is different from Times Square.", "Bronx">>,
        <<"Honestly, I'd rather avoid them.", "Staten Island">> >> ],
    [ text |-> "Your style is best described as:",
      options |-> <<
        <<"Polished, ambitious, always on-trend or classic.", "Manhattan">>,
        <<"Unique, vintage, expressive, maybe a little edgy.", "Brooklyn">>,
        <<"Comfortable, practical, but with personal flair.", "Queens">>,
        <<"Streetwise, confident, true to myself.", "Bronx">>,
        <<"Laid-back, casual, no-fuss.", "Staten Island">> >> ] >>

\* the keys of BOROUGH_DESCRIPTIONS in dict (insertion) order
BOROUGH_DESCRIPTIONS ==
    <<"Manhattan", "Brooklyn", "Queens", "Bronx", "Staten Island">>

BoroughSet == { BOROUGH_DESCRIPTIONS[i] : i \in 1..Len(BOROUGH_DESCRIPTIONS) }

\* option_texts = [opt[0] for opt in question["options"]], as the set the
\* radio lets the user pick from; q_idx is 0-based as in the code
OptionTexts(q_idx) ==
    { QUESTIONS[q_idx + 1].options[i][1] :
        i \in 1..Len(QUESTIONS[q_idx + 1].options) }

\* next(b for text, b in QUESTIONS[qi]["options"] if text == answer_text)
BoroughOf(qi, answer_text) ==
    LET opts == QUESTIONS[qi + 1].options
        i == CHOOSE j \in 1..Len(opts) :
                /\ opts[j][1] = answer_text
                /\ \A k \in 1..(j - 1) : opts[k][1] # answer_text
    IN  opts[i][2]

\* the scores dict after the first n answers have been tallied
RECURSIVE Tally(_, _)
Tally(answers, n) ==
    IF n = 0
    THEN [b \in BoroughSet |-> 0]
    ELSE LET prev == Tally(answers, n - 1)
             borough == BoroughOf(n - 1, answers[n])
         IN  [prev EXCEPT ![borough] = @ + 1]

\* variant: the smallest score is selected
RECURSIVE MaxFrom_Min(_, _, _, _)
MaxFrom_Min(keys, f, i, best) ==
    IF i > Len(keys) THEN best
    ELSE IF f[keys[i]] < f[best] THEN MaxFrom_Min(keys, f, i + 1, keys[i])
    ELSE MaxFrom_Min(keys, f, i + 1, best)

\* variant: a later key with an equal score replaces the earlier one
RECURSIVE MaxFrom_LastWins(_, _, _, _)
MaxFrom_LastWins(keys, f, i, best) ==
    IF i > Len(keys) THEN best
    ELSE IF f[keys[i]] >= f[best] THEN MaxFrom_LastWins(keys, f, i + 1, keys[i])
    ELSE MaxFrom_LastWins(keys, f, i + 1, best)

\* Python max(keys, key=f) over keys[i..]: the first maximal key is kept
RECURSIVE MaxFrom(_, _, _, _)
MaxFrom(keys, f, i, best) ==
    IF i > Len(keys) THEN best
    ELSE IF f[keys[i]] > f[best] THEN MaxFrom(keys, f, i + 1, keys[i])
    ELSE MaxFrom(keys, f, i + 1, best)

PyMax(keys, f) == MaxFrom(keys, f, 2, keys[1])

\* the result computed after the last question
QuizResult(answers) ==
    PyMax(BOROUGH_DESCRIPTIONS, Tally(answers, Len(answers)))

QuizShown ==
    /\ variant = "ui"
    /\ pc = "idle"
    /\ mode = "NYC Persona Quiz"

\* variant: the recorded answers survive the reset
reset_quiz_state_KeepAnswers ==
    /\ quiz_started' = FALSE
    /\ quiz_index' = 0
    /\ quiz_answers' = quiz_answers
    /\ quiz_result' = "None"

reset_quiz_state ==
    /\ quiz_started' = FALSE
    /\ quiz_index' = 0
    /\ quiz_answers' = <<>>
    /\ quiz_result' = "None"

\* the "Start Quiz" button
QuizStart ==
    /\ QuizShown
    /\ ~quiz_started
    /\ quiz_started' = TRUE
    /\ event' = "quiz_start"
    /\ UNCHANGED <<variant, pc, messages, cliVars, pre_turn, streamVars, mode,
                   quiz_index, quiz_answers, quiz_result, chosen>>

\* variant: going back to the chat also starts a new conversation
QuizBackToChat_NewChat ==
    /\ QuizShown
    /\ quiz_started
    /\ quiz_result # "None"
    /\ mode' = "Chat Mode"
    /\ reset_quiz_state
    /\ messages' = <<UiSystemMessage>>
    /\ event' = "quiz_back"
    /\ UNCHANGED <<variant, pc, cliVars, pre_turn, streamVars, chosen>>

\* the "Chat with NYC Bot" button of the result view
QuizBackToChat ==
    /\ QuizShown
    /\ quiz_started
    /\ quiz_result # "None"
    /\ mode' = "Chat Mode"
    /\ reset_quiz_state
    /\ event' = "quiz_back"
    /\ UNCHANGED <<variant, pc, messages, cliVars, pre_turn, streamVars, chosen>>

\* the "Retake Quiz" button of the result view
QuizRetake ==
    /\ QuizShown
    /\ quiz_started
    /\ quiz_result # "None"
    /\ reset_quiz_state
    /\ event' = "quiz_retake"
    /\ UNCHANGED <<variant, pc, messages, cliVars, pre_turn, streamVars, mode, chosen>>

\* variant: the test on the first question is missing
QuizPrevious_NoGuard ==
    /\ QuizShown
    /\ quiz_started
    /\ quiz_result = "None"
    /\ quiz_index' = quiz_index - 1
    /\ event' = "quiz_previous"
    /\ UNCHANGED <<variant, pc, messages, cliVars, pre_turn, streamVars, mode,
                   quiz_started, quiz_answers, quiz_result, chosen>>

\* the "Previous" button of the question view
QuizPrevious ==
    /\ QuizShown
    /\ quiz_started
    /\ quiz_result = "None"
    /\ quiz_index' = IF quiz_index > 0 THEN quiz_index - 1 ELSE quiz_index
    /\ event' = "quiz_previous"
    /\ UNCHANGED <<variant, pc, messages, cliVars, pre_turn, streamVars, mode,
                   quiz_started, quiz_answers, quiz_result, chosen>>

\* variant: the result is computed one question early
QuizNext_EarlyResult(choice) ==
    /\ QuizShown
    /\ quiz_started
    /\ quiz_result = "None"
    /\ choice \in OptionTexts(quiz_index)
    /\ LET q_idx == quiz_index
           saved == IF Len(quiz_answers) > q_idx
                    THEN [quiz_answers EXCEPT ![q_idx + 1] = choice]
                    ELSE Append(quiz_answers, choice)
       IN  /\ quiz_answers' = saved
           /\ IF q_idx + 1 < Len(QUESTIONS) - 1
              THEN /\ quiz_index' = quiz_index + 1
                   /\ UNCHANGED quiz_result
              ELSE /\ quiz_result' = QuizResult(saved)
                   /\ UNCHANGED quiz_index
    /\ event' = "quiz_next"
    /\ chosen' = choice
    /\ UNCHANGED <<variant, pc, messages, cliVars, pre_turn, streamVars, mode,
                   quiz_started>>

\* variant: the answer is always appended, never replaced
QuizNext_AlwaysAppend(choice) ==
    /\ QuizShown
    /\ quiz_started
    /\ quiz_result = "None"
    /\ choice \in OptionTexts(quiz_index)
    /\ LET q_idx == quiz_index
           saved == Append(quiz_answers, choice)
       IN  /\ quiz_answers' = saved
           /\ IF q_idx + 1 < Len(QUESTIONS)
              THEN /\ quiz_index' = quiz_index + 1
                   /\ UNCHANGED quiz_result
              ELSE /\ quiz_result' = QuizResult(saved)
                   /\ UNCHANGED quiz_index
    /\ event' = "quiz_next"
    /\ chosen' = choice
    /\ UNCHANGED <<variant, pc, messages, cliVars, pre_turn, streamVars, mode,
                   quiz_started>>

\* the "Next" button of the question view, with the radio on choice
QuizNext(choice) ==
    /\ QuizShown
    /\ quiz_started
    /\ quiz_result = "None"
    /\ choice \in OptionTexts(quiz_index)
    /\ LET q_idx == quiz_index
           saved == IF Len(quiz_answers) > q_idx
                    THEN [quiz_answers EXCEPT ![q_idx + 1] = choice]
                    ELSE Append(quiz_answers, choice)
       IN  /\ quiz_answers' = saved
           /\ IF q_idx + 1 < Len(QUESTIONS)
              THEN /\ quiz_index' = quiz_index + 1
                   /\ UNCHANGED quiz_result
              ELSE /\ quiz_result' = QuizResult(saved)
                   /\ UNCHANGED quiz_index
    /\ event' = "quiz_next"
    /\ chosen' = choice
    /\ UNCHANGED <<variant, pc, messages, cliVars, pre_turn, streamVars, mode,
                   quiz_started>>

AllOptionTexts == UNION { OptionTexts(q) : q \in 0..(Len(QUESTIONS) - 1) }

QuizActions ==
    \/ QuizStart
    \/ QuizBackToChat
    \/ QuizRetake
    \/ QuizPrevious
    \/ \E choice \in AllOptionTexts : QuizNext(choice)

----------------------------------------------------------------------------
Init ==
    /\ variant \in {"cli", "ui"}
    /\ pc = IF variant = "cli" THEN "input" ELSE "idle"
    /\ messages = IF variant = "cli" THEN <<CliSystemMessage>> ELSE <<UiSystemMessage>>
    /\ line = <<>>
    /\ user_input = <<>>
    /\ event = "start"
    /\ calls = 0
    /\ pre_turn = <<>>
    /\ answer_accum = <<>>
    /\ chunk_idx = 0
    /\ failures = 0
    /\ mode = "Chat Mode"
    /\ quiz_started = FALSE
    /\ quiz_index = 0
    /\ quiz_answers = <<>>
    /\ quiz_result = "None"
    /\ chosen = "None"

Next == CliNext \/ UiNext

Spec == Init /\ [][Next]_vars

\* the web UI with the quiz: mode switches and the quiz buttons
InitQuiz == Init /\ variant = "ui"

NextQuiz ==
    \/ \E m \in {"Chat Mode", "NYC Persona Quiz"} : UiSetMode(m)
    \/ QuizActions

SpecQuiz == InitQuiz /\ [][NextQuiz]_vars

----------------------------------------------------------------------------
(* Properties                                                               *)

SystemMessage == IF variant = "cli" THEN CliSystemMessage ELSE UiSystemMessage

\* the web UI with chat and quiz together; the user picks among the first
\* two options, so that the product of the two state spaces stays small
MixedChoices ==
    { QUESTIONS[qi].options[k][1] : qi \in 1..Len(QUESTIONS), k \in 1..2 }

NextMixed ==
    \/ UiNext /\ failures' <= MixedMaxFailures
    \/ QuizStart
    \/ QuizBackToChat
    \/ QuizRetake
    \/ QuizPrevious
    \/ \E choice \in MixedChoices : QuizNext(choice)

SpecMixed == InitQuiz /\ [][NextMixed]_vars

\* C1: in both variants the conversation is never empty and its first
\* element is always the system (persona) message
C1_SystemFirst ==
    /\ Len(messages) >= 1
    /\ messages[1].role = "system"
    /\ messages[1] = SystemMessage

\* a web-UI turn that followed a failed call has just been trimmed
C1_Witness ==
    /\ variant = "ui"
    /\ event = "answer+trim"
    /\ failures >= 1

\* the step stores a reply (terminal) / an answer (web UI) and runs the trim
CliReplyStep == variant = "cli" /\ pc = "call" /\ event' \in {"reply", "reply+trim"}
UiAnswerStep == variant = "ui" /\ pc = "stream" /\ event' \in {"answer", "answer+trim"}

\* C2: when the conversation with the reply appended is longer than T (20 in
\* the terminal, 40 in the web UI), the trim leaves at most K+1 messages
\* (19, 39) and the first element is the one from before the trim
C2_TrimBound ==
    [][ /\ (CliReplyStep /\ Len(messages) + 1 > 20)
            => (Len(messages') <= 19 /\ messages'[1] = messages[1])
        /\ (UiAnswerStep /\ Len(messages) + 1 > 40)
            => (Len(messages') <= 39 /\ messages'[1] = messages[1]) ]_vars

\* the web UI has just trimmed a conversation of more than 40 messages
C2_Witness ==
    /\ variant = "ui"
    /\ event = "answer+trim"
    /\ Len(messages) = 39

\* C3: terminal: a failed call leaves the conversation exactly as it was
\* before the user's message was appended
C3_CliRollback ==
    [][ (variant = "cli" /\ pc = "call" /\ event' = "error")
            => messages' = pre_turn ]_vars

\* the terminal is back at the prompt after a failed call in a conversation
\* that already holds a completed turn
C3_Witness ==
    /\ variant = "cli"
    /\ event = "error"
    /\ pc = "input"
    /\ Len(messages) >= 3

\* C4: web UI: a failed call (before the first fragment or part-way through
\* the stream) leaves the conversation exactly as it was before the user's
\* message was appended
C4_UiRollback ==
    [][ (variant = "ui" /\ pc = "stream" /\ event' = "exception")
            => messages' = pre_turn ]_vars

\* the documented reset command of the terminal
C5_ResetLine == <<"/","r","e","s","e","t">>

\* C5: reset (the terminal's /reset, the web UI's button) leaves exactly one
\* message, the system message
C5_Reset ==
    [][ /\ (variant = "cli" /\ pc = "input" /\ event' # "eof" /\ line' = C5_ResetLine)
            => messages' = <<CliSystemMessage>>
        /\ (variant = "ui" /\ event' = "reset")
            => messages' = <<UiSystemMessage>> ]_vars

\* the web UI was reset after a failed turn had left its message behind
C5_Witness ==
    /\ variant = "ui"
    /\ event = "reset"
    /\ failures >= 1
    /\ messages = <<UiSystemMessage>>

\* the label the table gives for an option text of question qi (1-based)
LabelOf(qi, text) ==
    CHOOSE b \in BoroughSet :
        \E i \in 1..Len(QUESTIONS[qi].options) :
            QUESTIONS[qi].options[i] = <<text, b>>

\* how many recorded answers map to borough b
CountFor(b) ==
    Cardinality({ qi \in 1..Len(quiz_answers) : LabelOf(qi, quiz_answers[qi]) = b })

\* C6: once the quiz is complete four answers are recorded and no borough
\* has a strictly higher count than the resolved one
C6_Plurality ==
    quiz_result # "None" =>
        /\ Len(quiz_answers) = 4
        /\ quiz_result \in BoroughSet
        /\ \A b \in BoroughSet : CountFor(b) <= CountFor(quiz_result)

\* answers mapping to A, A, B, C resolved to A
C6_Witness ==
    /\ quiz_result # "None"
    /\ CountFor(quiz_result) = 2
    /\ \A b \in BoroughSet \ {quiz_result} : CountFor(b) <= 1

BoroughIndex(b) ==
    CHOOSE i \in 1..Len(BOROUGH_DESCRIPTIONS) : BOROUGH_DESCRIPTIONS[i] = b

\* C7: among the boroughs that share the maximum count the resolved one
\* comes first in the table order Manhattan, Brooklyn, Queens, Bronx,
\* Staten Island, whatever the order of the answers
C7_TieBreak ==
    quiz_result # "None" =>
        \A b \in BoroughSet :
            CountFor(b) = CountFor(quiz_result)
                => BoroughIndex(quiz_result) <= BoroughIndex(b)

\* a two-two tie in which the first answer went to the losing borough
C7_Witness ==
    /\ quiz_result # "None"
    /\ CountFor(quiz_result) = 2
    /\ \E b \in BoroughSet \ {quiz_result} :
          /\ CountFor(b) = 2
          /\ LabelOf(1, quiz_answers[1]) = b

\* lines that are neither empty after stripping nor a command
C8_ChatLines ==
    { <<"h","i">>, <<" ","h","i"," ">>, <<"/","e","x","i","t","s">> }

\* C8: terminal: after a failed call the program is back at the prompt, the
\* session has not ended, and exactly one request was issued for the line;
\* a line that is a chat message causes exactly one request, whether the
\* call succeeds or fails, and no line ever causes more than one
C8_NoRetry ==
    variant = "cli" =>
        /\ calls <= 1
        /\ (pc = "call" => calls = 1)
        /\ (event = "error" => (pc = "input" /\ calls = 1))
        /\ (event \in {"reply", "reply+trim"} => (pc = "input" /\ calls = 1))
        /\ (line \in C8_ChatLines => calls = 1)
        /\ (event \in {"empty", "exit", "reset"} => calls = 0)

\* a call has failed and the loop is waiting for the next line
C8_Witness ==
    /\ variant = "cli"
    /\ event = "error"
    /\ pc = "input"
    /\ calls = 1

\* c and d are the same letter up to case
SameLetter(c, d) ==
    \/ c = d
    \/ \E i \in 1..Len(UpperChars) :
          {c, d} = {UpperChars[i], LowerChars[i]}

\* typed is cmd in some letter case, surrounded by whitespace only
IsCommandForm(typed, cmd) ==
    \E i \in 1..(Len(typed) + 1) :
        /\ i + Len(cmd) - 1 <= Len(typed)
        /\ \A k \in 1..Len(cmd) : SameLetter(typed[i + k - 1], cmd[k])
        /\ \A k \in 1..(i - 1) : typed[k] \in {" ", "\t", "\n"}
        /\ \A k \in (i + Len(cmd))..Len(typed) : typed[k] \in {" ", "\t", "\n"}

C9_IsExitLine(typed) ==
    \/ IsCommandForm(typed, <<"/","e","x","i","t">>)
    \/ IsCommandForm(typed, <<"/","q","u","i","t">>)
    \/ IsCommandForm(typed, <<"/","q">>)

\* C9: terminal: a line that is /exit, /quit or /q in any letter case and
\* with any surrounding whitespace ends the session without a request and
\* without touching the conversation, and nothing happens after the end
C9_Exit ==
    [][ /\ (variant = "cli" /\ pc = "input" /\ event' # "eof" /\ C9_IsExitLine(line'))
            => (pc' = "done" /\ messages' = messages /\ calls' = 0)
        /\ (pc = "done" => UNCHANGED vars) ]_vars

\* the session ended on " /Q<tab>" after at least one completed turn
C9_Witness ==
    /\ variant = "cli"
    /\ pc = "done"
    /\ event = "exit"
    /\ line = <<" ","/","Q","\t">>
    /\ Len(messages) >= 3

\* C10: terminal: at the prompt the conversation holds at most 19 messages
\* and a request carries at most 20
C10_CliCap ==
    variant = "cli" =>
        /\ (pc = "input" => Len(messages) <= 19)
        /\ (pc = "call" => Len(messages) <= 20)

\* a request carrying 20 messages is in flight
C10_Witness ==
    /\ variant = "cli"
    /\ pc = "call"
    /\ Len(messages) = 20

\* C11: web UI: when a turn has ended (the page is idle again) the stored
\* conversation holds at most 40 messages, failed turns included
C11_UiCap ==
    (variant = "ui" /\ pc = "idle") => Len(messages) <= 40

\* the conversation as it is right before the trim of the step
C13_CliAppended == Append(messages, Msg("assistant", <<"Y","o">>))
C13_UiAppended == Append(messages, Msg("assistant", answer_accum))

\* old[0] followed by the k last elements of old, in their order
C13_Window(old, k) ==
    [i \in 1..(k + 1) |-> IF i = 1 THEN old[1] ELSE old[Len(old) - k + i - 1]]

\* C13: the trim is exact: a conversation of at most T messages is left as
\* it is, a longer one becomes its element 0 followed by its K most recent
\* elements in order; the reply just appended is the last element
C13_TrimExact ==
    [][ /\ CliReplyStep =>
              /\ messages' = IF Len(C13_CliAppended) <= 20
                             THEN C13_CliAppended
                             ELSE C13_Window(C13_CliAppended, 18)
              /\ messages'[Len(messages')] = Msg("assistant", <<"Y","o">>)
        /\ UiAnswerStep =>
              /\ messages' = IF Len(C13_UiAppended) <= 40
                             THEN C13_UiAppended
                             ELSE C13_Window(C13_UiAppended, 38)
              /\ messages'[Len(messages')] = Msg("assistant", answer_accum) ]_vars

\* the terminal has just trimmed a conversation whose user messages differ
C13_Witness ==
    /\ variant = "cli"
    /\ event = "reply+trim"
    /\ Len(messages) = 19
    /\ messages[2].content # messages[4].content

\* the messages after element 0 alternate user, assistant, ...
C15_Alternates ==
    \A i \in 2..Len(messages) :
        messages[i].role = IF i % 2 = 0 THEN "user" ELSE "assistant"

\* C15: in the terminal always, in the web UI while no call has failed: at
\* the prompt the messages after element 0 alternate user, assistant and end
\* with an assistant message (odd length), and a request in flight is the
\* same followed by the new user message (even length)
C15_Alternation ==
    (variant = "cli" \/ failures = 0) =>
        /\ C15_Alternates
        /\ (pc \in {"input", "idle", "done"} => Len(messages) % 2 = 1)
        /\ (pc \in {"call", "stream"} => Len(messages) % 2 = 0)

\* the terminal has just trimmed: element 1 is a user message, the reply is last
C15_Witness ==
    /\ variant = "cli"
    /\ event = "reply+trim"
    /\ pc = "input"
    /\ messages[2].role = "user"
    /\ messages[Len(messages)].role = "assistant"

\* the step reads a line at the prompt
C14_ReadStep == variant = "cli" /\ pc = "input" /\ event' # "eof"

C14_Blank(typed) == \A k \in 1..Len(typed) : typed[k] \in {" ", "\t", "\n"}

\* typed without its surrounding whitespace
C14_Core(typed) ==
    IF C14_Blank(typed) THEN <<>> ELSE
    LET i == CHOOSE a \in 1..Len(typed) :
                 /\ typed[a] \notin {" ", "\t", "\n"}
                 /\ \A k \in 1..(a - 1) : typed[k] \in {" ", "\t", "\n"}
        j == CHOOSE b \in 1..Len(typed) :
                 /\ typed[b] \notin {" ", "\t", "\n"}
                 /\ \A k \in (b + 1)..Len(typed) : typed[k] \in {" ", "\t", "\n"}
    IN  [k \in 1..(j - i + 1) |-> typed[i + k - 1]]

\* typed begins, after leading whitespace, with /reset in some letter case
C14_ResetPrefixed(typed) ==
    /\ ~C14_Blank(typed)
    /\ Len(C14_Core(typed)) >= 6
    /\ \A k \in 1..6 : SameLetter(C14_Core(typed)[k], C5_ResetLine[k])

C14_IsChat ==
    /\ messages' = Append(messages, Msg("user", C14_Core(line')))
    /\ pc' = "call"
    /\ calls' = 1

\* C14 as stated: every line that is not empty (after stripping) and is
\* not /exit, /quit, /q or /reset is appended as a user message and sent to
\* the model
C14_Original ==
    [][ (/\ C14_ReadStep
         /\ ~C14_Blank(line')
         /\ ~C9_IsExitLine(line')
         /\ ~IsCommandForm(line', C5_ResetLine))
            => C14_IsChat ]_vars

\* C14 amended: a line is a chat message (appended stripped as a user
\* message and sent once) exactly when it is not blank, is not /exit, /quit
\* or /q and does not begin with /reset; a line beginning with /reset resets
\* the history, an exit command ends the session, a blank line does nothing
C14_Classify ==
    [][ C14_ReadStep =>
          IF C14_Blank(line')
          THEN messages' = messages /\ pc' = "input" /\ calls' = 0
          ELSE IF C9_IsExitLine(line')
          THEN messages' = messages /\ pc' = "done" /\ calls' = 0
          ELSE IF C14_ResetPrefixed(line')
          THEN messages' = <<CliSystemMessage>> /\ pc' = "input" /\ calls' = 0
          ELSE C14_IsChat ]_vars

\* the line "/resetx" has reset the history
C14_Witness ==
    /\ variant = "cli"
    /\ line = <<"/","r","e","s","e","t","x">>
    /\ event = "reset"
    /\ pc = "input"
    /\ messages = <<CliSystemMessage>>

\* text is one of the option texts of question qi (1-based)
IsOptionOf(qi, text) ==
    \E k \in 1..Len(QUESTIONS[qi].options) : QUESTIONS[qi].options[k][1] = text

\* C12: the resolved borough is null or one of the five boroughs; it is
\* non-null only when an answer is recorded for each of the four questions;
\* Start, Previous and Next on a question before the last leave it null
C12_ResultNullable ==
    /\ [](/\ quiz_result \in BoroughSet \cup {"None"}
          /\ quiz_result # "None" =>
                /\ Len(quiz_answers) = 4
                /\ \A qi \in 1..4 : IsOptionOf(qi, quiz_answers[qi]))
    /\ [][ (\/ event' \in {"quiz_start", "quiz_previous"}
            \/ (event' = "quiz_next" /\ quiz_index < 3))
              => quiz_result' = "None" ]_vars

\* the last question has just been answered and the result is set
C12_Witness ==
    /\ event = "quiz_next"
    /\ quiz_index = 3
    /\ Len(quiz_answers) = 4
    /\ quiz_result \in BoroughSet

\* C16: 0 <= quiz_index <= 3, quiz_index <= len(quiz_answers) <= 4, the
\* answer at position i is an option text of question i, and Previous on
\* the first question changes nothing of the quiz state
C16_QuizPosition ==
    /\ [](/\ quiz_index \in 0..3
          /\ quiz_index <= Len(quiz_answers)
          /\ Len(quiz_answers) <= 4
          /\ \A qi \in 1..Len(quiz_answers) : IsOptionOf(qi, quiz_answers[qi]))
    /\ [][ (event' = "quiz_previous" /\ quiz_index = 0)
              => UNCHANGED <<quiz_started, quiz_index, quiz_answers, quiz_result>> ]_vars

\* Previous was pressed on the first question before any answer was given
C16_Witness ==
    /\ event = "quiz_previous"
    /\ quiz_started
    /\ quiz_index = 0
    /\ quiz_answers = <<>>

RECURSIVE C17_Sum(_, _)
C17_Sum(f, i) ==
    IF i = 0 THEN 0 ELSE f[BOROUGH_DESCRIPTIONS[i]] + C17_Sum(f, i - 1)

\* C17: Next on question i stores the current choice at position i,
\* replacing an earlier answer and leaving the other answers alone; at
\* scoring time one answer per question is tallied and the tallies sum to 4
C17_Replace ==
    /\ [][ event' = "quiz_next" =>
              /\ IsOptionOf(quiz_index + 1, chosen')
              /\ Len(quiz_answers') = IF Len(quiz_answers) > quiz_index
                                      THEN Len(quiz_answers) ELSE quiz_index + 1
              /\ quiz_answers'[quiz_index + 1] = chosen'
              /\ \A i \in 1..Len(quiz_answers) :
                    i # quiz_index + 1 => quiz_answers'[i] = quiz_answers[i] ]_vars
    /\ [](quiz_result # "None" =>
              /\ Len(quiz_answers) = 4
              /\ \A b \in BoroughSet : Tally(quiz_answers, 4)[b] = CountFor(b)
              /\ C17_Sum(Tally(quiz_answers, 4), Len(BOROUGH_DESCRIPTIONS)) = 4)

\* the first question has been answered again while three answers exist
C17_Witness ==
    /\ event = "quiz_next"
    /\ quiz_index = 1
    /\ Len(quiz_answers) = 3
    /\ chosen = quiz_answers[1]
    /\ LabelOf(1, chosen) = "Queens"

\* C19: Retake Quiz and Chat with NYC Bot put the quiz state back to not
\* started, index 0, no answers, no result; a result is always the
\* first-listed maximum of the answers recorded at that time
C19_QuizReset ==
    /\ [][ event' \in {"quiz_retake", "quiz_back"} =>
              /\ quiz_started' = FALSE
              /\ quiz_index' = 0
              /\ quiz_answers' = <<>>
              /\ quiz_result' = "None" ]_vars
    /\ [](quiz_result # "None" =>
              /\ Len(quiz_answers) = 4
              /\ \A b \in BoroughSet :
                    \/ CountFor(b) < CountFor(quiz_result)
                    \/ /\ CountFor(b) = CountFor(quiz_result)
                       /\ BoroughIndex(quiz_result) <= BoroughIndex(b))

\* a completed quiz has just been reset by Retake Quiz
C19_Witness ==
    /\ event = "quiz_retake"
    /\ ~quiz_started
    /\ quiz_index = 0
    /\ quiz_answers = <<>>
    /\ quiz_result = "None"
    /\ chosen # "None"

C18_QuizEvents ==
    {"quiz_start", "quiz_next", "quiz_previous", "quiz_retake", "quiz_back"}

C18_ChatEvents ==
    {"submit", "chunk", "answer", "answer+trim", "exception", "reset"}

\* C18: a quiz action leaves the conversation unchanged, a chat action
\* leaves quiz_started, quiz_index, quiz_answers and quiz_result unchanged,
\* and a mode switch changes neither
C18_Independent ==
    [][ variant = "ui" =>
          /\ event' \in C18_QuizEvents => messages' = messages
          /\ event' \in C18_ChatEvents =>
                UNCHANGED <<quiz_started, quiz_index, quiz_answers, quiz_result>>
          /\ event' = "mode" =>
                /\ messages' = messages
                /\ UNCHANGED <<quiz_started, quiz_index, quiz_answers, quiz_result>> ]_vars

\* a completed quiz was left for the chat while the conversation held a
\* trimmed history, and the history is still there
C18_Witness ==
    /\ variant = "ui"
    /\ event = "quiz_back"
    /\ mode = "Chat Mode"
    /\ Len(messages) >= 39

====
